---- MODULE Spec2Model ----
(***************************************************************************)
(* MCPWrappedTool (hello_agents/tools/builtin/mcp_wrapper_tool.py): the    *)
(* adapter that wraps one tool of an MCP server.  The model covers the     *)
(* constructor, _parse_input_schema, get_parameters and run, together with *)
(* the part of json.loads / json.dumps that run depends on.                *)
(*                                                                         *)
(* Representation.  A Python str is a sequence of one-character strings.   *)
(* A Python value is a record tagged by t:                                 *)
(*   [t |-> "none"]                     None                               *)
(*   [t |-> "bool", b |-> BOOLEAN]      True / False                       *)
(*   [t |-> "num",  n |-> Nat]          int                                *)
(*   [t |-> "str",  s |-> str]          str                                *)
(*   [t |-> "list", items |-> Seq]      list                               *)
(*   [t |-> "dict", d |-> mapping]      dict, a function from str keys to  *)
(*                                      values (dict equality ignores      *)
(*                                      insertion order, as in Python)     *)
(* Dicts whose keys are fixed words of the protocol (tool_info, a schema,  *)
(* a property's info, the call request) are functions over TLA+ strings.   *)
(***************************************************************************)
EXTENDS Integers, Sequences, FiniteSets, TLC

(* ------------------------------ bounds --------------------------------- *)

\* longest enumerated raw string passed under the `input` key
MaxStrLen == 3
\* largest number of properties a schema declares
MaxParams == 2
\* number of run calls a caller thread makes in the concurrent specification
MaxCalls == 2

(* --------------------------- Python values ----------------------------- *)

PyNone == [t |-> "none"]
PyBool(b) == [t |-> "bool", b |-> b]
PyNum(n) == [t |-> "num", n |-> n]
PyStr(s) == [t |-> "str", s |-> s]
PyList(items) == [t |-> "list", items |-> items]
PyDict(d) == [t |-> "dict", d |-> d]

EmptyMap == [k \in {} |-> PyNone]

\* Python truthiness, as used by `not input_value` and `if not input_value`
Truthy(v) ==
    CASE v.t = "none" -> FALSE
      [] v.t = "bool" -> v.b
      [] v.t = "num"  -> v.n # 0
      [] v.t = "str"  -> v.s # <<>>
      [] v.t = "list" -> v.items # <<>>
      [] v.t = "dict" -> DOMAIN v.d # {}

\* dict.get(key, default)
Get(d, key, default) == IF key \in DOMAIN d THEN d[key] ELSE default

(* ------------------------------ json.loads ----------------------------- *)
(* The decoder of the standard library, restricted to the characters the   *)
(* model feeds it: whitespace is the space, numbers are unsigned integers, *)
(* and the escapes inside strings are \" \\ and \/ .                       *)

Quote == "\""
Backslash == "\\"
Whitespace == {" "}
Digits == {"0", "1", "2", "3", "4", "5", "6", "7", "8", "9"}

DigitValue(c) ==
    CASE c = "0" -> 0 [] c = "1" -> 1 [] c = "2" -> 2 [] c = "3" -> 3
      [] c = "4" -> 4 [] c = "5" -> 5 [] c = "6" -> 6 [] c = "7" -> 7
      [] c = "8" -> 8 [] c = "9" -> 9

\* a JSONDecodeError raised at some position
DecodeError == [ok |-> FALSE, val |-> PyNone, end |-> 0]
Decoded(v, end) == [ok |-> TRUE, val |-> v, end |-> end]

\* WHITESPACE.match(s, i).end()
RECURSIVE SkipWs(_, _)
SkipWs(s, i) ==
    IF i <= Len(s) /\ s[i] \in Whitespace THEN SkipWs(s, i + 1) ELSE i

\* json.decoder.scanstring: i is the position after the opening quote
RECURSIVE ScanString(_, _, _)
ScanString(s, i, acc) ==
    IF i > Len(s) THEN DecodeError
    ELSE IF s[i] = Quote THEN Decoded(PyStr(acc), i + 1)
    ELSE IF s[i] = Backslash
         THEN IF i + 1 <= Len(s) /\ s[i + 1] \in {Quote, Backslash, "/"}
              THEN ScanString(s, i + 2, Append(acc, s[i + 1]))
              ELSE DecodeError
    ELSE ScanString(s, i + 1, Append(acc, s[i]))

\* NUMBER_RE, integer part (0|[1-9][0-9]*): a leading 0 ends the number
RECURSIVE ScanDigits(_, _, _)
ScanDigits(s, i, acc) ==
    IF i <= Len(s) /\ s[i] \in Digits
    THEN ScanDigits(s, i + 1, 10 * acc + DigitValue(s[i]))
    ELSE Decoded(PyNum(acc), i)

ScanNumber(s, i) ==
    IF s[i] = "0" THEN Decoded(PyNum(0), i + 1) ELSE ScanDigits(s, i, 0)

StartsWith(s, i, word) ==
    /\ i + Len(word) - 1 <= Len(s)
    /\ SubSeq(s, i, i + Len(word) - 1) = word

RECURSIVE ScanOnce(_, _)
RECURSIVE ScanPairs(_, _, _)
RECURSIVE ScanItems(_, _, _)

\* json.decoder.JSONObject, the loop over "key": value pairs; i is the
\* position after the opening quote of a key
ScanPairs(s, i, pairs) ==
    LET key == ScanString(s, i, <<>>) IN
    IF ~key.ok THEN DecodeError
    ELSE
    LET colon == IF key.end <= Len(s) /\ s[key.end] = ":"
                 THEN key.end ELSE SkipWs(s, key.end) IN
    IF ~(colon <= Len(s) /\ s[colon] = ":") THEN DecodeError
    ELSE
    LET value == ScanOnce(s, SkipWs(s, colon + 1)) IN
    IF ~value.ok THEN DecodeError
    ELSE
    LET added == [k \in DOMAIN pairs \cup {key.val.s} |->
                    IF k = key.val.s THEN value.val ELSE pairs[k]]
        next == SkipWs(s, value.end) IN
    IF next > Len(s) THEN DecodeError
    ELSE IF s[next] = "}" THEN Decoded(PyDict(added), next + 1)
    ELSE IF s[next] # "," THEN DecodeError
    ELSE
    LET name == SkipWs(s, next + 1) IN
    IF name <= Len(s) /\ s[name] = Quote
    THEN ScanPairs(s, name + 1, added)
    ELSE DecodeError

\* json.decoder.JSONObject: i is the position after the opening brace
ScanObject(s, i) ==
    LET first == SkipWs(s, i) IN
    IF first > Len(s) THEN DecodeError
    ELSE IF s[first] = "}" THEN Decoded(PyDict(EmptyMap), first + 1)
    ELSE IF s[first] = Quote THEN ScanPairs(s, first + 1, EmptyMap)
    ELSE DecodeError

\* json.decoder.JSONArray, the loop over the items; i is the position of
\* the next item
ScanItems(s, i, items) ==
    LET value == ScanOnce(s, i) IN
    IF ~value.ok THEN DecodeError
    ELSE
    LET added == Append(items, value.val)
        next == SkipWs(s, value.end) IN
    IF next > Len(s) THEN DecodeError
    ELSE IF s[next] = "]" THEN Decoded(PyList(added), next + 1)
    ELSE IF s[next] # "," THEN DecodeError
    ELSE ScanItems(s, SkipWs(s, next + 1), added)

\* json.decoder.JSONArray: i is the position after the opening bracket
ScanArray(s, i) ==
    LET first == SkipWs(s, i) IN
    IF first > Len(s) THEN DecodeError
    ELSE IF s[first] = "]" THEN Decoded(PyList(<<>>), first + 1)
    ELSE ScanItems(s, first, <<>>)

\* json.scanner.py_make_scanner._scan_once
ScanOnce(s, i) ==
    IF i > Len(s) THEN DecodeError
    ELSE IF s[i] = Quote THEN ScanString(s, i + 1, <<>>)
    ELSE IF s[i] = "{" THEN ScanObject(s, i + 1)
    ELSE IF s[i] = "[" THEN ScanArray(s, i + 1)
    ELSE IF StartsWith(s, i, <<"n", "u", "l", "l">>) THEN Decoded(PyNone, i + 4)
    ELSE IF StartsWith(s, i, <<"t", "r", "u", "e">>) THEN Decoded(PyBool(TRUE), i + 4)
    ELSE IF StartsWith(s, i, <<"f", "a", "l", "s", "e">>) THEN Decoded(PyBool(FALSE), i + 5)
    ELSE IF s[i] \in Digits THEN ScanNumber(s, i)
    ELSE DecodeError

\* json.loads(s) for a str s: the value, or a JSONDecodeError (ok = FALSE)
\* when no value starts after the leading whitespace or data follows it
Loads(s) ==
    LET value == ScanOnce(s, SkipWs(s, 1)) IN
    IF value.ok /\ SkipWs(s, value.end) = Len(s) + 1 THEN value ELSE DecodeError

(* ------------------------------ json.dumps ----------------------------- *)

RECURSIVE EscapeStr(_)
EscapeStr(s) ==
    IF s = <<>> THEN <<>>
    ELSE (IF Head(s) \in {Quote, Backslash} THEN <<Backslash, Head(s)>> ELSE <<Head(s)>>)
         \o EscapeStr(Tail(s))

RECURSIVE DigitsOf(_)
DigitsOf(n) ==
    LET d == CHOOSE c \in Digits : DigitValue(c) = n % 10 IN
    IF n < 10 THEN <<d>> ELSE Append(DigitsOf(n \div 10), d)

\* all orders in which the keys of a dict may have been inserted
KeyOrders(K) ==
    {o \in [1..Cardinality(K) -> K] : \A i, j \in 1..Cardinality(K) : o[i] = o[j] => i = j}

\* json.dumps(v, separators=(itemSep, keySep)) of a value whose dicts were
\* filled in the key order `order` (the order only matters at the top level
\* of the values used here: nested dicts have at most one key)
RECURSIVE Dumps(_, _, _, _)
RECURSIVE DumpsPairs(_, _, _, _, _)
RECURSIVE DumpsItems(_, _, _, _)

DumpsPairs(d, order, i, itemSep, keySep) ==
    IF i > Len(order) THEN <<>>
    ELSE (IF i > 1 THEN itemSep ELSE <<>>)
         \o <<Quote>> \o EscapeStr(order[i]) \o <<Quote>> \o keySep
         \o Dumps(d[order[i]], CHOOSE o \in KeyOrders(IF d[order[i]].t = "dict" THEN DOMAIN d[order[i]].d ELSE {}) : TRUE, itemSep, keySep)
         \o DumpsPairs(d, order, i + 1, itemSep, keySep)

DumpsItems(items, i, itemSep, keySep) ==
    IF i > Len(items) THEN <<>>
    ELSE (IF i > 1 THEN itemSep ELSE <<>>)
         \o Dumps(items[i], CHOOSE o \in KeyOrders(IF items[i].t = "dict" THEN DOMAIN items[i].d ELSE {}) : TRUE, itemSep, keySep)
         \o DumpsItems(items, i + 1, itemSep, keySep)

Dumps(v, order, itemSep, keySep) ==
    CASE v.t = "none" -> <<"n", "u", "l", "l">>
      [] v.t = "bool" -> IF v.b THEN <<"t", "r", "u", "e">> ELSE <<"f", "a", "l", "s", "e">>
      [] v.t = "num"  -> DigitsOf(v.n)
      [] v.t = "str"  -> <<Quote>> \o EscapeStr(v.s) \o <<Quote>>
      [] v.t = "list" -> <<"[">> \o DumpsItems(v.items, 1, itemSep, keySep) \o <<"]">>
      [] v.t = "dict" -> <<"{">> \o DumpsPairs(v.d, order, 1, itemSep, keySep) \o <<"}">>

\* the JSON encodings of a dict: json.dumps with the default separators
\* (", ", ": ") or the compact ones (",", ":"), for every insertion order
Encodings(d) ==
    {Dumps(PyDict(d), o, <<",", " ">>, <<":", " ">>) : o \in KeyOrders(DOMAIN d)}
    \cup {Dumps(PyDict(d), o, <<",">>, <<":">>) : o \in KeyOrders(DOMAIN d)}

(* ------------------------- bounded input domains ----------------------- *)

InputKey == <<"i", "n", "p", "u", "t">>
NameA == <<"a">>
NameB == <<"b">>
NameC == <<"c">>
NameZ == <<"z">>

\* characters of the enumerated raw strings: a digit, the quote and the
\* braces give numbers, JSON strings, the empty object and broken JSON
Alphabet == {"1", Quote, "{", "}"}
EnumStrings == UNION {[1..n -> Alphabet] : n \in 0..MaxStrLen}

\* further raw strings: plain text, whitespace, literals, arrays, a number
\* with a leading zero, the stock symbol of the docstring
ExtraStrings ==
    { <<"a">>, <<"a", " ", "b">>, <<" ">>, <<" ", "1">>,
      <<"n", "u", "l", "l">>, <<"t", "r", "u", "e">>, <<"f", "a", "l", "s", "e">>,
      <<"[", "]">>, <<"[", "1", ",", "2", "]">>, <<"[", "1", ",">>,
      <<"0", "1">>, <<"3", "0", "0", "0", "5", "8">> }

Map1(k, v) == [x \in {k} |-> v]
Map2(k1, v1, k2, v2) == [x \in {k1, k2} |-> IF x = k1 THEN v1 ELSE v2]

\* dicts passed to run in the structured form (none is the single-key
\* `input` envelope): empty, declared and undeclared keys, `input` next to
\* another key, nested and non-string values
StructuredMappings ==
    { EmptyMap,
      Map1(NameA, PyStr(<<"1">>)), Map1(NameA, PyNum(1)), Map1(NameA, PyNone),
      Map1(NameA, PyStr(<<Quote>>)), Map1(NameA, PyStr(<<>>)),
      Map1(NameB, PyStr(<<"a">>)), Map1(NameZ, PyBool(TRUE)),
      Map1(NameA, PyList(<<PyNum(1), PyStr(<<"a">>)>>)),
      Map1(NameA, PyDict(Map1(NameB, PyNum(1)))),
      Map2(NameA, PyStr(<<"1">>), NameB, PyStr(<<"a">>)),
      Map2(NameA, PyNum(10), NameZ, PyStr(<<Backslash>>)),
      Map2(InputKey, PyStr(<<"a">>), NameA, PyStr(<<"1">>)) }

\* dicts that are themselves the single-key `input` envelope
EnvelopeMappings ==
    { Map1(InputKey, PyStr(<<"a">>)), Map1(InputKey, PyStr(<<>>)),
      Map1(InputKey, PyStr(<<"1">>)), Map1(InputKey, PyNone) }

Mappings == StructuredMappings \cup EnvelopeMappings

RawStrings == EnumStrings \cup ExtraStrings \cup UNION {Encodings(m) : m \in Mappings}

Envelope(v) == PyDict(Map1(InputKey, v))

\* what a caller passes to run: None, a structured dict, or the envelope
\* {"input": v} with v a str or None
RawInputs ==
    {PyNone} \cup {PyDict(m) : m \in StructuredMappings}
    \cup {Envelope(PyStr(s)) : s \in RawStrings} \cup {Envelope(PyNone)}

(* --------------------------- schemas and tools ------------------------- *)

EmptyDict == [k \in {} |-> ""]
Range(f) == {f[i] : i \in DOMAIN f}
Injective(f) == \A i, j \in DOMAIN f : f[i] = f[j] => i = j

\* an ordered dict name -> info is a sequence of <<name, info>> pairs with
\* distinct names
PropertiesOver(names, infos) ==
    UNION {{p \in [1..n -> names \X infos] : Injective([i \in 1..n |-> p[i][1]])} : n \in 0..MaxParams}
RequiredOver(names) ==
    UNION {{r \in [1..n -> names] : Injective(r)} : n \in 0..MaxParams}

\* input_schema dicts: each of `properties` and `required` present or absent
SchemasOver(names, infos) ==
    {[properties |-> p, required |-> r] : p \in PropertiesOver(names, infos), r \in RequiredOver(names)}
    \cup {[properties |-> p] : p \in PropertiesOver(names, infos)}
    \cup {[required |-> r] : r \in RequiredOver(names)}
    \cup {EmptyDict}

PropInfos ==
    { EmptyDict, [type |-> "number"], [description |-> "d"],
      [type |-> "object", description |-> "d"] }

\* the schemas _parse_input_schema is checked on
AllSchemas == SchemasOver({NameA, NameB, NameC}, PropInfos)

\* the schemas of the tools run is checked on
RunSchemas == SchemasOver({NameA, NameB}, {[type |-> "string"]})

ToolName == <<"t">>
ToolDesc == <<"d">>
Prefixes == {<<>>, <<"f", "_">>}

ToolInfos ==
    {[name |-> ToolName, input_schema |-> s] : s \in RunSchemas}
    \cup {[name |-> ToolName, description |-> ToolDesc, input_schema |-> s] :
             s \in {EmptyDict, [properties |-> <<<<NameA, EmptyDict>>>>, required |-> <<NameA>>]}}
    \cup {[input_schema |-> [properties |-> <<<<NameA, EmptyDict>>>>]], [name |-> ToolName], EmptyDict}

(* ------------------------------ the adapter ---------------------------- *)

ToolParameter(name, type, description, required) ==
    [name |-> name, type |-> type, description |-> description, required |-> required]

\* _parse_input_schema reading `required` from the property's own info
\* instead of the schema's required list
ParseInputSchemaRequiredFromInfo(input_schema) ==
    LET properties == Get(input_schema, "properties", <<>>)
    IN  [i \in 1..Len(properties) |->
            LET param_name == properties[i][1]
                param_info == properties[i][2]
            IN  ToolParameter(param_name,
                              Get(param_info, "type", "string"),
                              Get(param_info, "description", ""),
                              Get(param_info, "required", FALSE))]

\* MCPWrappedTool._parse_input_schema
ParseInputSchema(input_schema) ==
    LET properties == Get(input_schema, "properties", <<>>)
        required_fields == Get(input_schema, "required", <<>>)
    IN  [i \in 1..Len(properties) |->
            LET param_name == properties[i][1]
                param_info == properties[i][2]
            IN  ToolParameter(param_name,
                              Get(param_info, "type", "string"),
                              Get(param_info, "description", ""),
                              param_name \in Range(required_fields))]

Unknown == <<"u", "n", "k", "n", "o", "w", "n">>
\* the text in front of the tool name in the default description
DefaultDescription == <<"M", "C", "P", ":", " ">>

\* MCPWrappedTool.__init__: the fields of the constructed object
Construct(tool_info, prefix) ==
    LET mcp_tool_name == Get(tool_info, "name", Unknown)
        tool_name == IF prefix # <<>> THEN prefix \o mcp_tool_name ELSE mcp_tool_name
    IN  [ tool_info |-> tool_info,
          mcp_tool_name |-> mcp_tool_name,
          name |-> tool_name,
          description |-> Get(tool_info, "description", DefaultDescription \o mcp_tool_name),
          parameters |-> ParseInputSchema(Get(tool_info, "input_schema", EmptyDict)) ]

\* MCPWrappedTool.get_parameters
GetParameters(self) == self.parameters

SelectRequired(parameters) == SelectSeq(parameters, LAMBDA p : p.required)

\* the target chosen without looking at the required flags
TargetParamFirst(parameters) == parameters[1]

\* the target of an unstructured string: the first required parameter, or
\* the first parameter
TargetParam(parameters) ==
    LET required_params == SelectRequired(parameters)
    IN  IF required_params # <<>> THEN required_params[1] ELSE parameters[1]

TypeError == [kind |-> "raise", by |-> "adapter", v |-> "TypeError"]
Raised(e) == [raised |-> TRUE, err |-> e, params |-> PyNone]
Value(p) == [raised |-> FALSE, err |-> TypeError, params |-> p]

\* the try block keeping only the declared names of a decoded dict
ParseInputDeclaredOnly(parameters, params, input_value) ==
    LET parsed == Loads(input_value.s)
        declared == {parameters[i].name : i \in 1..Len(parameters)}
    IN  IF parsed.ok
        THEN IF parsed.val.t = "dict"
             THEN PyDict([k \in DOMAIN parsed.val.d \cap declared |-> parsed.val.d[k]])
             ELSE params
        ELSE IF ~Truthy(input_value) THEN PyDict(EmptyMap)
             ELSE IF parameters # <<>>
                  THEN PyDict(Map1(TargetParam(parameters).name, input_value))
                  ELSE params

\* the body of the try block and its except clause: json.loads(input_value)
ParseInput(parameters, params, input_value) ==
    LET parsed == Loads(input_value.s) IN
    IF parsed.ok
    THEN IF parsed.val.t = "dict" THEN parsed.val ELSE params
    ELSE IF ~Truthy(input_value) THEN PyDict(EmptyMap)
         ELSE IF parameters # <<>>
              THEN PyDict(Map1(TargetParam(parameters).name, input_value))
              ELSE params

\* run taking any dict that has an `input` key for the envelope
NormalizeAnyInputKey(parameters, params) ==
    IF params.t # "dict" THEN Raised(TypeError)
    ELSE IF InputKey \in DOMAIN params.d
    THEN LET input_value == params.d[InputKey] IN
         IF ~Truthy(input_value) /\ parameters = <<>> THEN Value(PyDict(EmptyMap))
         ELSE IF input_value.t = "str" THEN Value(ParseInput(parameters, params, input_value))
         ELSE Value(params)
    ELSE Value(params)

\* MCPWrappedTool.run up to the construction of the request: the value of
\* the local `params`, or the TypeError of `"input" in params` on None
Normalize(parameters, params) ==
    IF params.t # "dict" THEN Raised(TypeError)
    ELSE IF InputKey \in DOMAIN params.d /\ Cardinality(DOMAIN params.d) = 1
    THEN LET input_value == params.d[InputKey] IN
         IF ~Truthy(input_value) /\ parameters = <<>> THEN Value(PyDict(EmptyMap))
         ELSE IF input_value.t = "str" THEN Value(ParseInput(parameters, params, input_value))
         ELSE Value(params)
    ELSE Value(params)

\* mcp_params naming the tool by the prefixed name the caller sees
McpParamsVisibleName(self, params) ==
    [action |-> "call_tool", tool_name |-> self.name, arguments |-> params]

\* the mcp_params dict of run
McpParams(self, params) ==
    [action |-> "call_tool", tool_name |-> self.mcp_tool_name, arguments |-> params]

(* -------------------------------- state -------------------------------- *)

Callers == {1, 2}

VARIABLES
    prefix,      \* the prefix argument the tool was constructed with
    tool,        \* the MCPWrappedTool object (self)
    callers,     \* the threads that call run
    pc,          \* per caller: position inside run
    rawInput,    \* per caller: the dict object the caller passed
    params,      \* per caller: the local variable `params` of run
    request,     \* per caller: the mcp_params handed to mcp_tool.run
    dispatched,  \* per caller: calls of mcp_tool.run made by this run
    reply,       \* per caller: what mcp_tool.run returned or raised
    outcome,     \* per caller: what run returned or raised
    calls,       \* per caller: finished run calls (concurrent specification)
    history,     \* <<rawInput, request>> of the finished calls
    schema,      \* an input_schema handed to _parse_input_schema
    parsed       \* the ToolParameter list it returned, once it has

vars == <<prefix, tool, callers, pc, rawInput, params, request, dispatched,
          reply, outcome, calls, history, schema, parsed>>

NoRequest == [action |-> "none"]
NoOutcome == [kind |-> "none", by |-> "none", v |-> "none"]
NotParsed == <<[name |-> <<>>, type |-> "unparsed", description |-> "", required |-> FALSE]>>

\* what mcp_tool.run may do: return a text, or raise
Replies ==
    { [kind |-> "return", by |-> "executor", v |-> "result text"],
      [kind |-> "return", by |-> "executor", v |-> "Error: tool failed"],
      [kind |-> "raise", by |-> "executor", v |-> "RemoteFailure"] }

InitCalls ==
    /\ pc = [c \in Callers |-> "idle"]
    /\ rawInput = [c \in Callers |-> PyNone]
    /\ params = [c \in Callers |-> PyNone]
    /\ request = [c \in Callers |-> NoRequest]
    /\ dispatched = [c \in Callers |-> 0]
    /\ reply = [c \in Callers |-> NoOutcome]
    /\ outcome = [c \in Callers |-> NoOutcome]
    /\ calls = [c \in Callers |-> 0]
    /\ history = {}

Init ==
    /\ prefix \in Prefixes
    /\ \E tool_info \in ToolInfos : tool = Construct(tool_info, prefix)
    /\ callers = {1}
    /\ InitCalls
    /\ schema = EmptyDict
    /\ parsed = <<>>

toolVars == <<prefix, tool, callers, schema, parsed>>

\* a caller calls run(raw)
Call(c, raw) ==
    /\ pc[c] = "idle"
    /\ calls[c] < MaxCalls
    /\ pc' = [pc EXCEPT ![c] = "called"]
    /\ rawInput' = [rawInput EXCEPT ![c] = raw]
    /\ params' = [params EXCEPT ![c] = raw]
    /\ UNCHANGED <<request, dispatched, reply, outcome, calls, history, toolVars>>

\* run normalizing in place: the caller's dict object is overwritten too
NormalizeStepInPlace(c) ==
    /\ pc[c] = "called"
    /\ LET r == Normalize(GetParameters(tool), params[c]) IN
       IF r.raised
       THEN /\ pc' = [pc EXCEPT ![c] = "done"]
            /\ outcome' = [outcome EXCEPT ![c] = r.err]
            /\ UNCHANGED <<params, rawInput>>
       ELSE /\ pc' = [pc EXCEPT ![c] = "normalized"]
            /\ params' = [params EXCEPT ![c] = r.params]
            /\ rawInput' = [rawInput EXCEPT ![c] = r.params]
            /\ UNCHANGED outcome
    /\ UNCHANGED <<request, dispatched, reply, calls, history, toolVars>>

\* run, lines 115-135: the local params is rebound to the normalized dict
NormalizeStep(c) ==
    /\ pc[c] = "called"
    /\ LET r == Normalize(GetParameters(tool), params[c]) IN
       IF r.raised
       THEN /\ pc' = [pc EXCEPT ![c] = "done"]
            /\ outcome' = [outcome EXCEPT ![c] = r.err]
            /\ UNCHANGED params
       ELSE /\ pc' = [pc EXCEPT ![c] = "normalized"]
            /\ params' = [params EXCEPT ![c] = r.params]
            /\ UNCHANGED outcome
    /\ UNCHANGED <<rawInput, request, dispatched, reply, calls, history, toolVars>>

\* run, lines 138-145: build mcp_params and call self.mcp_tool.run
Dispatch(c) ==
    /\ pc[c] = "normalized"
    /\ pc' = [pc EXCEPT ![c] = "waiting"]
    /\ request' = [request EXCEPT ![c] = McpParams(tool, params[c])]
    /\ dispatched' = [dispatched EXCEPT ![c] = @ + 1]
    /\ UNCHANGED <<rawInput, params, reply, outcome, calls, history, toolVars>>

\* the remote executor answers the request
ExecutorReply(c, r) ==
    /\ pc[c] = "waiting"
    /\ pc' = [pc EXCEPT ![c] = "replied"]
    /\ reply' = [reply EXCEPT ![c] = r]
    /\ UNCHANGED <<rawInput, params, request, dispatched, outcome, calls, history, toolVars>>

\* run, line 145: return what mcp_tool.run returned; what it raised propagates
Return(c) ==
    /\ pc[c] = "replied"
    /\ pc' = [pc EXCEPT ![c] = "done"]
    /\ outcome' = [outcome EXCEPT ![c] = reply[c]]
    /\ UNCHANGED <<rawInput, params, request, dispatched, reply, calls, history, toolVars>>

ResetCall(c) ==
    /\ pc' = [pc EXCEPT ![c] = "idle"]
    /\ rawInput' = [rawInput EXCEPT ![c] = PyNone]
    /\ params' = [params EXCEPT ![c] = PyNone]
    /\ request' = [request EXCEPT ![c] = NoRequest]
    /\ dispatched' = [dispatched EXCEPT ![c] = 0]
    /\ reply' = [reply EXCEPT ![c] = NoOutcome]
    /\ outcome' = [outcome EXCEPT ![c] = NoOutcome]

\* the caller has the outcome and is ready for its next call
Finish(c) ==
    /\ pc[c] = "done"
    /\ ResetCall(c)
    /\ UNCHANGED <<calls, history, toolVars>>

Next ==
    \/ \E c \in callers, raw \in RawInputs : Call(c, raw)
    \/ \E c \in callers : NormalizeStep(c)
    \/ \E c \in callers : Dispatch(c)
    \/ \E c \in callers, r \in Replies : ExecutorReply(c, r)
    \/ \E c \in callers : Return(c)
    \/ \E c \in callers : Finish(c)

Spec == Init /\ [][Next]_vars

(* ------------------- concurrent callers, several calls ----------------- *)

ConcToolInfos ==
    { [name |-> ToolName, input_schema |-> EmptyDict],
      [name |-> ToolName,
       input_schema |-> [properties |-> <<<<NameA, EmptyDict>>, <<NameB, EmptyDict>>>>,
                         required |-> <<NameB>>]] }

ConcInputs ==
    { PyNone, PyDict(Map1(NameA, PyStr(<<"1">>))), Envelope(PyStr(<<"a">>)),
      Envelope(PyStr(<<>>)), Envelope(PyStr(<<"{", Quote, "a", Quote, ":", Quote, "1", Quote, "}">>)) }

ConcReplies == {r \in Replies : r.v # "Error: tool failed"}

InitConc ==
    /\ prefix \in Prefixes
    /\ \E tool_info \in ConcToolInfos : tool = Construct(tool_info, prefix)
    /\ callers = Callers
    /\ InitCalls
    /\ schema = EmptyDict
    /\ parsed = <<>>

\* the caller has the outcome, remembers what was sent and may call again
Again(c) ==
    /\ pc[c] = "done"
    /\ history' = history \cup {<<rawInput[c], request[c]>>}
    /\ calls' = [calls EXCEPT ![c] = @ + 1]
    /\ ResetCall(c)
    /\ UNCHANGED toolVars

NextConc ==
    \/ \E c \in callers, raw \in ConcInputs : Call(c, raw)
    \/ \E c \in callers : NormalizeStep(c)
    \/ \E c \in callers : Dispatch(c)
    \/ \E c \in callers, r \in ConcReplies : ExecutorReply(c, r)
    \/ \E c \in callers : Return(c)
    \/ \E c \in callers : Again(c)

SpecConc == InitConc /\ [][NextConc]_vars

(* --------------------------- schema translation ------------------------ *)

InitSchema ==
    /\ prefix = <<>>
    /\ tool = Construct(EmptyDict, <<>>)
    /\ callers = {}
    /\ InitCalls
    /\ schema \in AllSchemas
    /\ parsed = NotParsed

\* a call of _parse_input_schema(schema)
ParseSchema ==
    /\ parsed = NotParsed
    /\ parsed' = ParseInputSchema(schema)
    /\ UNCHANGED <<prefix, tool, callers, pc, rawInput, params, request, dispatched,
                   reply, outcome, calls, history, schema>>

NextSchema == ParseSchema

SpecSchema == InitSchema /\ [][NextSchema]_vars

(* ------------------------------ properties ----------------------------- *)

\* run of caller c has handed a request to the remote executor
Forwarded(c) == dispatched[c] > 0
\* the local params of caller c holds the result of the normalization
Normalized(c) == pc[c] \in {"normalized", "waiting", "replied"} \/ Forwarded(c)
\* raw is the envelope {"input": v}
IsEnvelope(raw) == raw.t = "dict" /\ DOMAIN raw.d = {InputKey}
Candidate(raw) == raw.d[InputKey]
\* raw is {"input": c} with c a non-empty str
IsTextEnvelope(raw) ==
    IsEnvelope(raw) /\ Candidate(raw).t = "str" /\ Candidate(raw).s # <<>>

\* the request run(raw) hands to the remote executor
RunRequest(raw) == McpParams(tool, Normalize(GetParameters(tool), raw).params)

\* the schema the tool was built from, as the caller wrote it
DeclaredProperties ==
    Get(Get(tool.tool_info, "input_schema", EmptyDict), "properties", <<>>)
DeclaredRequired ==
    Range(Get(Get(tool.tool_info, "input_schema", EmptyDict), "required", <<>>))
\* the first declared name that is required, or the first declared name;
\* the required names enter as a set, so their order cannot matter
DeclaredTarget ==
    LET req == {i \in 1..Len(DeclaredProperties) : DeclaredProperties[i][1] \in DeclaredRequired}
    IN  IF req # {}
        THEN DeclaredProperties[CHOOSE i \in req : \A j \in req : i <= j][1]
        ELSE DeclaredProperties[1][1]

\* <<s, m>> for every JSON encoding s of a mapping m of the bounded domain
EncodedMappings == UNION {{<<e, m>> : e \in Encodings(m)} : m \in Mappings}

\* C1: for every callable and every rawInput (a structured mapping, the
\* `input` envelope around any string, an absent or empty rawInput) a
\* finished run raised no error of its own, produced a mapping as the
\* arguments and reached the dispatch step.
NormalizationNeverFails ==
    \A c \in callers :
        pc[c] = "done" =>
            /\ outcome[c].by # "adapter"
            /\ dispatched[c] = 1
            /\ request[c].arguments.t = "dict"

\* C2: for every mapping m and every JSON encoding s of m, run({input: s})
\* dispatches the request that run(m) dispatches.
JsonFormEquivalent ==
    \A c \in callers : \A em \in EncodedMappings :
        (/\ Forwarded(c)
         /\ IsTextEnvelope(rawInput[c])
         /\ Candidate(rawInput[c]).s = em[1])
        => request[c] = RunRequest(PyDict(em[2]))

\* C2 (amended): for every mapping m that is not itself the single-key
\* `input` envelope and every JSON encoding s of m, run({input: s})
\* dispatches the request that run(m) dispatches, and its arguments are m.
JsonFormEquivalentStructured ==
    \A c \in callers : \A em \in EncodedMappings :
        (/\ Forwarded(c)
         /\ IsTextEnvelope(rawInput[c])
         /\ Candidate(rawInput[c]).s = em[1]
         /\ ~IsEnvelope(PyDict(em[2])))
        => /\ request[c] = RunRequest(PyDict(em[2]))
           /\ request[c].arguments = PyDict(em[2])

JsonFormWitness ==
    /\ Forwarded(1)
    /\ IsTextEnvelope(rawInput[1])
    /\ Candidate(rawInput[1]).s \in Encodings(Map2(NameA, PyNum(10), NameZ, PyStr(<<Backslash>>)))
    /\ GetParameters(tool) # <<>>
    /\ request[1].arguments = PyDict(Map2(NameA, PyNum(10), NameZ, PyStr(<<Backslash>>)))

\* C3: for a callable with at least one parameter and a non-empty string c
\* that is not parseable as JSON, run({input: c}) dispatches {t: c}, t being
\* the first required descriptor in declared order, or the first descriptor
\* if none is required, whatever the order of the schema's required list.
FallbackTarget ==
    \A c \in callers :
        (/\ Forwarded(c)
         /\ IsTextEnvelope(rawInput[c])
         /\ ~Loads(Candidate(rawInput[c]).s).ok
         /\ GetParameters(tool) # <<>>)
        => request[c].arguments = PyDict(Map1(DeclaredTarget, Candidate(rawInput[c])))

FallbackTargetWitness ==
    /\ Forwarded(1)
    /\ rawInput[1] = Envelope(PyStr(<<"a", " ", "b">>))
    /\ "input_schema" \in DOMAIN tool.tool_info
    /\ tool.tool_info.input_schema =
          [properties |-> <<<<NameA, [type |-> "string"]>>, <<NameB, [type |-> "string"]>>>>,
           required |-> <<NameB>>]
    /\ request[1].arguments = PyDict(Map1(NameB, PyStr(<<"a", " ", "b">>)))

\* C4: for every rawInput mapping that is not the single-key `input`
\* envelope, the arguments of the dispatched request are rawInput unchanged,
\* and normalizing the result again, any number of times, gives it back.
StructuredPassthrough ==
    \A c \in callers :
        (rawInput[c].t = "dict" /\ ~IsEnvelope(rawInput[c])) =>
            /\ Normalized(c) =>
                  /\ params[c] = rawInput[c]
                  /\ Normalize(GetParameters(tool), params[c]) = Value(rawInput[c])
                  /\ Normalize(GetParameters(tool),
                               Normalize(GetParameters(tool), params[c]).params) = Value(rawInput[c])
            /\ Forwarded(c) => request[c].arguments = rawInput[c]
            /\ pc[c] = "done" => Forwarded(c)

StructuredPassthroughWitness ==
    /\ Forwarded(1)
    /\ rawInput[1] = PyDict(Map2(InputKey, PyStr(<<"a">>), NameA, PyStr(<<"1">>)))
    /\ GetParameters(tool) # <<>>
    /\ request[1].arguments = rawInput[1]

\* C5: for every callable, with or without parameters, run({input: c}) with
\* c the empty string or an absent value dispatches, and its arguments are
\* the empty mapping.
EmptyInputEmptyArguments ==
    \A c \in callers :
        (IsEnvelope(rawInput[c]) /\ Candidate(rawInput[c]) \in {PyStr(<<>>), PyNone}) =>
            /\ Forwarded(c) => request[c].arguments = PyDict(EmptyMap)
            /\ pc[c] = "done" => Forwarded(c)

\* C6: every request handed to the remote executor is {action: "call_tool",
\* tool_name: N, arguments: A}, A the normalized mapping and N the name of
\* the tool as the caller sees it, with or without a prefix.
CallRequestUsesVisibleName ==
    \A c \in callers :
        Forwarded(c) =>
            request[c] = [action |-> "call_tool", tool_name |-> tool.name,
                          arguments |-> Normalize(GetParameters(tool), rawInput[c]).params]

\* C6 (amended): every request handed to the remote executor is {action:
\* "call_tool", tool_name: N, arguments: A}, A the normalized mapping and N
\* the remote tool's own name (tool_info's name, or "unknown"), without the
\* prefix; N is the name the caller sees exactly when the prefix is empty.
CallRequestShape ==
    \A c \in callers :
        Forwarded(c) =>
            /\ request[c] = [action |-> "call_tool",
                             tool_name |-> Get(tool.tool_info, "name", Unknown),
                             arguments |-> Normalize(GetParameters(tool), rawInput[c]).params]
            /\ tool.name = prefix \o request[c].tool_name
            /\ (request[c].tool_name = tool.name) <=> (prefix = <<>>)

CallRequestShapeWitness ==
    /\ Forwarded(1)
    /\ prefix = <<"f", "_">>
    /\ tool.name = <<"f", "_", "t">>
    /\ request[1].tool_name = <<"t">>
    /\ request[1].arguments = PyDict(Map1(NameA, PyStr(<<"{">>)))

\* C7: every run call makes exactly one call to the remote executor, after
\* normalization, and returns or raises exactly what that call returned or
\* raised.
SingleDispatchPassThrough ==
    \A c \in callers :
        /\ dispatched[c] <= 1
        /\ Forwarded(c) => request[c].arguments = Normalize(GetParameters(tool), rawInput[c]).params
        /\ pc[c] = "done" => (dispatched[c] = 1 /\ outcome[c] = reply[c])

\* C8: the descriptor list has one descriptor per entry of `properties`, in
\* that order, with the property's name, its type or "string", its
\* description or "", and required exactly when the name is in the
\* `required` list; absent `properties` gives the empty list and absent
\* `required` makes every descriptor optional.
SchemaTranslation ==
    parsed # NotParsed =>
        LET props == IF "properties" \in DOMAIN schema THEN schema.properties ELSE <<>>
            req == IF "required" \in DOMAIN schema THEN schema.required ELSE <<>>
        IN  /\ Len(parsed) = Len(props)
            /\ \A i \in 1..Len(props) :
                  /\ parsed[i].name = props[i][1]
                  /\ parsed[i].type =
                        (IF "type" \in DOMAIN props[i][2] THEN props[i][2].type ELSE "string")
                  /\ parsed[i].description =
                        (IF "description" \in DOMAIN props[i][2] THEN props[i][2].description ELSE "")
                  /\ parsed[i].required = (\E j \in 1..Len(req) : req[j] = props[i][1])

SchemaTranslationWitness ==
    /\ parsed # NotParsed
    /\ schema = [properties |-> <<<<NameB, EmptyDict>>, <<NameA, [type |-> "number"]>>>>,
                 required |-> <<NameA, NameC>>]
    /\ parsed = <<ToolParameter(NameB, "string", "", FALSE),
                  ToolParameter(NameA, "number", "", TRUE)>>

\* C9: for a callable with at least one parameter and a non-empty string c
\* that parses as JSON to something that is not a mapping, run({input: c})
\* dispatches {t: c}, t as in C3 and c the unparsed string.
ParsedNonMappingFallsBack ==
    \A c \in callers :
        (/\ Forwarded(c)
         /\ IsTextEnvelope(rawInput[c])
         /\ Loads(Candidate(rawInput[c]).s).ok
         /\ Loads(Candidate(rawInput[c]).s).val.t # "dict"
         /\ GetParameters(tool) # <<>>)
        => request[c].arguments = PyDict(Map1(DeclaredTarget, Candidate(rawInput[c])))

\* C10: over any interleaving of run calls the tool's name and descriptor
\* list never change, run does not mutate the dict it was given, and the
\* request of a call depends on its rawInput and the tool only: equal
\* rawInputs give equal requests, whatever was called before or meanwhile.
SameInputSameRequest ==
    LET sent == history \cup {<<rawInput[c], request[c]>> : c \in {k \in callers : Forwarded(k)}}
    IN  /\ \A e1, e2 \in sent : e1[1] = e2[1] => e1[2] = e2[2]
        /\ \A c \in callers : Forwarded(c) => request[c] = RunRequest(rawInput[c])
        /\ \A c \in callers : Normalized(c) =>
              params[c] = Normalize(GetParameters(tool), rawInput[c]).params

NothingMutated ==
    /\ tool' = tool
    /\ \A c \in callers : (pc[c] # "idle" /\ pc'[c] # "idle") => rawInput'[c] = rawInput[c]

Statelessness == [](SameInputSameRequest) /\ [][NothingMutated]_vars

StatelessnessWitness ==
    /\ Forwarded(1) /\ pc[1] = "waiting"
    /\ Forwarded(2) /\ pc[2] = "waiting"
    /\ rawInput[1] = rawInput[2]
    /\ rawInput[1] = Envelope(PyStr(<<"a">>))
    /\ calls[1] > 0
    /\ \E e \in history : e[1] = rawInput[1] /\ e[2] = request[2]
    /\ \E e \in history : e[1] = PyNone

====
